---- MODULE Spec2Model ----
(***************************************************************************)
(* VideoForge: the stitch planner of FFmpegService.stitchVideos (strategy  *)
(* selection, filter-graph synthesis, command assembly) and the preview    *)
(* fallback of FFmpegService.getPreviewFrame, over a model of the engine   *)
(* (@ffmpeg/ffmpeg): its virtual file system, exec, and log stream; the    *)
(* clip list of the VideoStitcher component with its stitch request; the   *)
(* service's engine instance, its loading and its listeners; and the       *)
(* session gate of AuthWrapper.                                            *)
(*                                                                         *)
(* Times are whole seconds.  A clip's optional `transition` field is a     *)
(* sequence of length 0 (absent) or 1.  The filter graph is kept as the    *)
(* sequence of its stages (input labels, filter, arguments, output label)  *)
(* and is serialized to the filter_complex string of the argument vector.  *)
(***************************************************************************)
EXTENDS Integers, Sequences, FiniteSets, TLC

VARIABLES
    pc,               \* position of the stitchVideos call
    videos,           \* its argument `videos`
    backgroundAudio,  \* whether its argument `backgroundAudio` is truthy
    needsReencode,    \* its local `needsReencode`
    command,          \* its local `command` (argv and the staged filter graph)
    junctions,        \* one record per iteration of its xfade loop
    stitchResult,     \* what the call returned or threw
    fs,               \* the engine's file system: name -> content
    ppc,              \* position of the getPreviewFrame call
    previewReq,       \* its arguments
    logListener,      \* whether its logCallback is registered on the engine
    engineLog,        \* the engine operations the preview call has issued
    previewResult,    \* what the call returned or threw
    planned,          \* history: per call begun, its arguments and its plan
    pc2,              \* position of a second, concurrent stitchVideos call
    videos2,          \* its argument `videos`
    backgroundAudio2, \* whether its argument `backgroundAudio` is truthy
    stitchResult2,    \* what it returned or threw
    stitcherVideos,   \* VideoStitcher: the `videos` state (the clip list)
    status,           \* VideoStitcher: the `status` state
    resultVideoUrl,   \* VideoStitcher: the `resultVideoUrl` state (<<>>: null)
    uploaded,         \* number of files uploaded so far (the source of ids)
    ffmpeg,           \* FFmpegService: `this.ffmpeg` (0: null, else an instance)
    loaded,           \* FFmpegService: `this.loaded`
    engines,          \* the FFmpeg instances constructed so far
    calls,            \* the service calls made so far, each with its position
    invoked,          \* the callbacks the engine's last event was delivered to
    authUser,         \* AuthWrapper: the `user` state (<<>>: null)
    isInitialized,    \* AuthWrapper: the `isInitialized` state
    listening,        \* AuthWrapper: its login/logout handlers are registered
    currentUser,      \* netlifyIdentity.currentUser() (<<>>: null)
    logoutPending,    \* netlifyIdentity.logout() was called and has not settled
    expiry,           \* localStorage 'vf_session_expiry' (<<>>: no entry)
    now               \* Date.now()

vars == <<pc, videos, backgroundAudio, needsReencode, command, junctions,
          stitchResult, fs, ppc, previewReq, logListener, engineLog,
          previewResult, planned, pc2, videos2, backgroundAudio2,
          stitchResult2, stitcherVideos, status, resultVideoUrl, uploaded,
          ffmpeg, loaded, engines, calls, invoked,
          authUser, isInitialized, listening, currentUser, logoutPending,
          expiry, now>>

stitchVars == <<pc, videos, backgroundAudio, needsReencode, command,
                junctions, stitchResult, planned>>
previewVars == <<ppc, previewReq, logListener, engineLog, previewResult>>
secondVars == <<pc2, videos2, backgroundAudio2, stitchResult2>>
stitcherVars == <<stitcherVideos, status, resultVideoUrl, uploaded>>
serviceVars == <<ffmpeg, loaded, engines, calls, invoked>>
authVars == <<authUser, isInitialized, listening, currentUser, logoutPending,
              expiry, now>>
programVars == <<stitchVars, fs, previewVars, secondVars, serviceVars,
                 stitcherVars>>

(***************************************************************************)
(* Bounds of the model.                                                    *)
(***************************************************************************)
MaxClips == 3
MaxCalls == 3
MaxUploads == 3
MaxOps == 2
MaxTime == 4

(***************************************************************************)
(* types.ts                                                                *)
(***************************************************************************)
TransitionType ==
    [NONE |-> "none", FADE |-> "fade", WIPELEFT |-> "wipeleft",
     WIPERIGHT |-> "wiperight", WIPEUP |-> "wipeup", WIPEDOWN |-> "wipedown",
     SLIDELT |-> "slidelt", SLIDERT |-> "slidert", SLIDEUP |-> "slideup",
     SLIDEDOWN |-> "slidedown", CIRCLECROP |-> "circlecrop",
     RECTCROP |-> "rectcrop", DISTANCE |-> "distance",
     FADEBLACK |-> "fadeblack", FADEWHITE |-> "fadewhite",
     RADIAL |-> "radial", SMOOTHLEFT |-> "smoothleft",
     SMOOTHRIGHT |-> "smoothright", PIXELIZE |-> "pixelize",
     DISSOLVE |-> "dissolve", CIRCLEOPEN |-> "circleopen",
     CIRCLECLOSE |-> "circleclose", ZOOMIN |-> "zoomin",
     HLSLICE |-> "hlslice", HRSLICE |-> "hrslice", VUSLICE |-> "vuslice",
     VDSLICE |-> "vdslice", HBLUR |-> "hblur", SQUEEZEH |-> "squeezeh",
     SQUEEZEV |-> "squeezev", DIAGONAL |-> "diagonal"]

TransitionValues == {TransitionType[k] : k \in DOMAIN TransitionType}

\* A VideoFile as stitchVideos reads it (id and thumbnail are never read).
VideoFile(name, type, w, h, d, t) ==
    [file |-> [name |-> name, type |-> type],
     width |-> w, height |-> h, duration |-> d, transition |-> t]

NoTransition == <<>>
Transition(type, d) == <<[type |-> type, duration |-> d]>>

(***************************************************************************)
(* stitchVideos: names and strategy (ffmpegService.ts 57-98)               *)
(***************************************************************************)
\* String.prototype.toLowerCase on the extensions the model uses.
ToLowerCase(s) ==
    CASE s = "MP4" -> "mp4"
      [] s = "WebM" -> "webm"
      [] OTHER -> s

\* file.name is kept as its '.'-separated segments (split('.') of it).
Ext(first) ==
    LET parts == first.file.name
        last  == parts[Len(parts)]
    IN  ToLowerCase(IF last = "" THEN "mp4" ELSE last)

Mime(first) == IF first.file.type = "" THEN "video/mp4" ELSE first.file.type

NeedsReencode_IgnoringType(vs, bg) ==
    \/ \E i \in 1..Len(vs) :
          \/ vs[i].width # vs[1].width
          \/ vs[i].height # vs[1].height
    \/ bg

NeedsReencode(vs, bg) ==
    \/ \E i \in 1..Len(vs) :
          \/ vs[i].width # vs[1].width
          \/ vs[i].height # vs[1].height
          \/ vs[i].file.type # Mime(vs[1])
    \/ bg

HasTransitions_JunctionsOnly(vs) ==
    \E i \in 1..(Len(vs) - 1) :
        Len(vs[i].transition) = 1 /\ vs[i].transition[1].type # "none"

HasTransitions(vs) ==
    \E i \in 1..Len(vs) :
        Len(vs[i].transition) = 1 /\ vs[i].transition[1].type # "none"

\* Clip indices are 0-based in the source; InputName(i, ext) is inputNames[i].
InputName_NoIndex(i, ext) == "input." \o ext
InputName(i, ext) == "input" \o ToString(i) \o "." \o ext
InputNames(vs) == [k \in 1..Len(vs) |-> InputName(k - 1, Ext(vs[1]))]
OutputName(vs) == "output." \o Ext(vs[1])
AudioInputName(bg) == IF bg THEN "background_audio.mp3" ELSE ""

(***************************************************************************)
(* stitchVideos: filter graph (ffmpegService.ts 117-194)                   *)
(***************************************************************************)
\* Buffer labels, as the template strings of the source write them.
InV(i) == "[" \o ToString(i) \o ":v]"
InA(i) == "[" \o ToString(i) \o ":a]"
VLabel(i) == "[v" \o ToString(i) \o "]"
VTemp(i) == "[vtemp" \o ToString(i) \o "]"
ATemp(i) == "[atemp" \o ToString(i) \o "]"

Stage(ins, filter, args, out) ==
    [ins |-> ins, filter |-> filter, args |-> args, out |-> out]

\* First pass: scale and pad clip i to the first clip's resolution.
ScaleStage(i, targetW, targetH) ==
    Stage(<<InV(i)>>, "scale", [w |-> targetW, h |-> targetH], VLabel(i))

Normalization(vs) ==
    [k \in 1..Len(vs) |-> ScaleStage(k - 1, vs[1].width, vs[1].height)]

ConcatStage(ins, n, v, a, out) ==
    Stage(ins, "concat", [n |-> n, v |-> v, a |-> a], out)

\* The branch without transitions: one n-ary concat, then the audio.
SimpleConcat(vs, bg) ==
    LET n == Len(vs)
    IN  <<ConcatStage([k \in 1..n |-> VLabel(k - 1)], n, 1, 0, "[v]")>>
        \o (IF bg
            THEN <<Stage(<<InA(n)>>, "anull", <<>>, "[a]")>>
            ELSE <<ConcatStage([k \in 1..n |-> InA(k - 1)], n, 0, 1, "[a]")>>)

\* const trans = v1.transition || { type: 'none', duration: 1 }
TransOf(v1) ==
    IF Len(v1.transition) = 1
    THEN v1.transition[1]
    ELSE [type |-> "none", duration |-> 1]

TransitionDuration(trans) ==
    IF trans.type = "none" THEN 0 ELSE trans.duration

JunctionOffset_NoOverlap(currentOffset, v1, transitionDuration) ==
    currentOffset + v1.duration

JunctionOffset(currentOffset, v1, transitionDuration) ==
    currentOffset + v1.duration - transitionDuration

\* "No transition: use concat"
PlainJunction(trans) ==
    trans.type = "none" \/ TransitionDuration(trans) <= 0

FfmpegTrans_Unmapped(type) == type

\* Map our transition types to ffmpeg names
FfmpegTrans(type) ==
    IF type = "slidelt" THEN "slideleft"
    ELSE IF type = "slidert" THEN "slideright"
    ELSE type

JunctionAudio_Always(bg, plain, currentA, i, transitionDuration) ==
    IF plain
    THEN <<ConcatStage(<<currentA, InA(i + 1)>>, 2, 0, 1, ATemp(i))>>
    ELSE <<Stage(<<currentA, InA(i + 1)>>, "acrossfade",
                 [d |-> transitionDuration], ATemp(i))>>

\* The audio stage of junction i: none when background audio replaces it.
JunctionAudio(bg, plain, currentA, i, transitionDuration) ==
    IF bg THEN <<>>
    ELSE IF plain
    THEN <<ConcatStage(<<currentA, InA(i + 1)>>, 2, 0, 1, ATemp(i))>>
    ELSE <<Stage(<<currentA, InA(i + 1)>>, "acrossfade",
                 [d |-> transitionDuration], ATemp(i))>>

JunctionVideo(plain, currentV, i, trans, offset) ==
    IF plain
    THEN ConcatStage(<<currentV, VLabel(i + 1)>>, 2, 1, 0, VTemp(i))
    ELSE Stage(<<currentV, VLabel(i + 1)>>, "xfade",
               [transition |-> FfmpegTrans(trans.type),
                duration |-> TransitionDuration(trans),
                offset |-> offset],
               VTemp(i))

NextCurrentV_Stale(currentV, i) == currentV

\* currentV = `[vtemp${i}]`
NextCurrentV(currentV, i) == VTemp(i)

NextCurrentA_Stale(bg, currentA, i) == currentA

\* if (!backgroundAudio) currentA = `[atemp${i}]`
NextCurrentA(bg, currentA, i) == IF bg THEN currentA ELSE ATemp(i)

NextOffset_AlwaysAdvance(plain, currentOffset, v1, offset) ==
    currentOffset + v1.duration

\* currentOffset += v1.duration (concat) or currentOffset = offset (xfade)
NextOffset(plain, currentOffset, v1, offset) ==
    IF plain THEN currentOffset + v1.duration ELSE offset

XfadeLoopInit ==
    [filterComplex |-> <<>>, currentV |-> "[v0]", currentA |-> "[0:a]",
     currentOffset |-> 0, trace |-> <<>>]

\* One iteration of `for (let i = 0; i < videos.length - 1; i++)`.
XfadeStep(vs, bg, i, s) ==
    LET v1     == vs[i + 1]
        trans  == TransOf(v1)
        td     == TransitionDuration(trans)
        offset == JunctionOffset(s.currentOffset, v1, td)
        plain  == PlainJunction(trans)
        vstage == JunctionVideo(plain, s.currentV, i, trans, offset)
        astage == JunctionAudio(bg, plain, s.currentA, i, td)
    IN  [filterComplex |-> s.filterComplex \o <<vstage>> \o astage,
         currentV      |-> NextCurrentV(s.currentV, i),
         currentA      |-> NextCurrentA(bg, s.currentA, i),
         currentOffset |-> NextOffset(plain, s.currentOffset, v1, offset),
         trace         |-> Append(s.trace,
                              [i |-> i, plain |-> plain, type |-> trans.type,
                               clipDuration |-> v1.duration,
                               transitionDuration |-> td,
                               currentOffset |-> s.currentOffset,
                               offset |-> offset,
                               video |-> vstage, audio |-> astage])]

RECURSIVE XfadeLoop(_, _, _, _)
XfadeLoop(vs, bg, i, s) ==
    IF i >= Len(vs) - 1 THEN s
    ELSE XfadeLoop(vs, bg, i + 1, XfadeStep(vs, bg, i, s))

\* After the loop: the chain's last buffers become [v] and [a].
FinalMapping(vs, bg, s) ==
    <<Stage(<<s.currentV>>, "null", <<>>, "[v]"),
      IF bg
      THEN Stage(<<InA(Len(vs))>>, "anull", <<>>, "[a]")
      ELSE Stage(<<s.currentA>>, "anull", <<>>, "[a]")>>

XfadeChain(vs, bg) ==
    LET s == XfadeLoop(vs, bg, 0, XfadeLoopInit)
    IN  s.filterComplex \o FinalMapping(vs, bg, s)

FilterComplex(vs, bg) ==
    Normalization(vs)
    \o (IF ~HasTransitions(vs) THEN SimpleConcat(vs, bg) ELSE XfadeChain(vs, bg))

Junctions(vs, bg) ==
    IF HasTransitions(vs) THEN XfadeLoop(vs, bg, 0, XfadeLoopInit).trace ELSE <<>>

(***************************************************************************)
(* Serialization of the graph, as the template strings write it.           *)
(***************************************************************************)
RECURSIVE Concat(_)
Concat(strs) == IF strs = <<>> THEN "" ELSE Head(strs) \o Concat(Tail(strs))

RECURSIVE Join(_, _)
Join(strs, sep) ==
    IF strs = <<>> THEN ""
    ELSE IF Len(strs) = 1 THEN strs[1]
    ELSE strs[1] \o sep \o Join(Tail(strs), sep)

FilterArgs(st) ==
    CASE st.filter = "scale" ->
           "scale=" \o ToString(st.args.w) \o ":" \o ToString(st.args.h)
           \o ":force_original_aspect_ratio=decrease,pad="
           \o ToString(st.args.w) \o ":" \o ToString(st.args.h)
           \o ":(ow-iw)/2:(oh-ih)/2,setsar=1,format=yuv420p"
      [] st.filter = "concat" ->
           "concat=n=" \o ToString(st.args.n) \o ":v=" \o ToString(st.args.v)
           \o ":a=" \o ToString(st.args.a)
      [] st.filter = "xfade" ->
           "xfade=transition=" \o st.args.transition
           \o ":duration=" \o ToString(st.args.duration)
           \o ":offset=" \o ToString(st.args.offset)
      [] st.filter = "acrossfade" -> "acrossfade=d=" \o ToString(st.args.d)
      [] OTHER -> st.filter

StageString(st) == Concat(st.ins) \o FilterArgs(st) \o st.out

FilterString(stages) ==
    Join([k \in 1..Len(stages) |-> StageString(stages[k])], ";")

(***************************************************************************)
(* stitchVideos: command (ffmpegService.ts 93-210)                         *)
(***************************************************************************)
RECURSIVE InputArgs_Reversed(_)
InputArgs_Reversed(names) ==
    IF names = <<>> THEN <<>>
    ELSE InputArgs_Reversed(Tail(names)) \o <<"-i", Head(names)>>

RECURSIVE InputArgs(_)
InputArgs(names) ==
    IF names = <<>> THEN <<>>
    ELSE <<"-i", Head(names)>> \o InputArgs(Tail(names))

\* FAST PATH: Concat Demuxer with Stream Copy
FastCommand(vs) ==
    [argv |-> <<"-f", "concat", "-safe", "0", "-i", "filelist.txt",
                "-c", "copy", OutputName(vs)>>,
     filterComplex |-> <<>>]

\* ROBUST PATH: Filter Complex with Scaling, Transitions, and Re-encoding
RobustCommand(vs, bg) ==
    LET stages == FilterComplex(vs, bg)
    IN  [argv |-> InputArgs(InputNames(vs))
                  \o (IF bg THEN <<"-i", AudioInputName(bg)>> ELSE <<>>)
                  \o <<"-filter_complex", FilterString(stages),
                       "-map", "[v]", "-map", "[a]",
                       "-c:v", "libx264", "-preset", "ultrafast",
                       "-c:a", "aac", "-pix_fmt", "yuv420p", "-shortest",
                       OutputName(vs)>>,
         filterComplex |-> stages]

FastPath_Sticky(vs, bg) ==
    ~needsReencode /\ ~HasTransitions(vs) /\ ~bg

FastPath(vs, bg) ==
    ~NeedsReencode(vs, bg) /\ ~HasTransitions(vs) /\ ~bg

Command(vs, bg) ==
    IF FastPath(vs, bg) THEN FastCommand(vs) ELSE RobustCommand(vs, bg)

\* concatList of the fast path
ConcatList(names) == [k \in 1..Len(names) |-> "file '" \o names[k] \o "'"]


(***************************************************************************)
(* The engine's file system (ffmpeg.writeFile / readFile / deleteFile).    *)
(***************************************************************************)
EmptyFS == [n \in {} |-> <<>>]
Exists(f, n) == n \in DOMAIN f
WriteFile(f, n, c) == [x \in DOMAIN f \cup {n} |-> IF x = n THEN c ELSE f[x]]
DeleteFile(f, n) == [x \in DOMAIN f \ {n} |-> f[x]]

RECURSIVE WriteAll(_, _, _)
WriteAll(f, names, contents) ==
    IF names = <<>> THEN f
    ELSE WriteAll(WriteFile(f, Head(names), Head(contents)),
                  Tail(names), Tail(contents))

RECURSIVE DeleteAll(_, _)
DeleteAll(f, names) ==
    IF names = <<>> THEN f ELSE DeleteAll(DeleteFile(f, Head(names)), Tail(names))

\* What the engine reads for a list of names: the contents of those present.
RECURSIVE ReadAll(_, _)
ReadAll(f, names) ==
    IF names = <<>> THEN <<>>
    ELSE (IF Exists(f, Head(names)) THEN <<f[Head(names)]>> ELSE <<>>)
         \o ReadAll(f, Tail(names))

(***************************************************************************)
(* stitchVideos, one action per stretch between engine calls.              *)
(***************************************************************************)
\* null, for the states and results that hold either null or a value.
Null == "null"
NoCommand == [argv |-> <<>>, filterComplex |-> <<>>]
NoResult == [status |-> "none"]
Failure(message) == [status |-> "error", message |-> message]

\* Lines 72-82 and 100-103: the files a call writes before its exec.
WriteInputs(f, vs, bg) ==
    LET f1 == WriteAll(f, InputNames(vs), [k \in 1..Len(vs) |-> vs[k].file])
        f2 == IF bg
              THEN WriteFile(f1, AudioInputName(bg),
                             [name |-> <<"music", "mp3">>, type |-> "audio/mpeg"])
              ELSE f1
    IN  IF FastPath(vs, bg)
        THEN WriteFile(f2, "filelist.txt", ConcatList(InputNames(vs)))
        ELSE f2

\* Lines 236-245: the deletions after a successful read.
DeleteIntermediates(f, vs, bg, reencode) ==
    LET f1 == DeleteAll(f, InputNames(vs))
        f2 == IF AudioInputName(bg) # ""
              THEN DeleteFile(f1, AudioInputName(bg))
              ELSE f1
        f3 == IF ~reencode /\ ~bg THEN DeleteFile(f2, "filelist.txt") ELSE f2
    IN  DeleteFile(f3, OutputName(vs))

\* Lines 57-210: write the inputs, choose the path, build the command.
StitchBegin(vs, bg) ==
    /\ pc = "idle"
    /\ videos' = vs
    /\ backgroundAudio' = bg
    /\ needsReencode' = NeedsReencode(vs, bg)
    /\ command' = Command(vs, bg)
    /\ junctions' = IF FastPath(vs, bg) THEN <<>> ELSE Junctions(vs, bg)
    /\ fs' = WriteInputs(fs, vs, bg)
    /\ stitchResult' = NoResult
    /\ pc' = "exec"
    /\ UNCHANGED <<previewVars, secondVars, serviceVars, authVars>>

ExecErrorMessage(reencode) ==
    IF reencode
    THEN "Stitching failed during re-encoding. Some videos might lack audio or have incompatible streams."
    ELSE "FFmpeg execution failed. Please ensure all videos have the same format and encoding."

\* The engine's output for the command: built from the inputs it names.
StitchedOutput(f, vs, bg) ==
    [video |-> ReadAll(f, InputNames(vs)),
     audio |-> IF bg THEN ReadAll(f, <<AudioInputName(bg)>>) ELSE <<>>]

\* Lines 212-221: exec resolves (with any exit code, which is not looked
\* at) or throws.
StitchExecOutcome(outcome) ==
    \/ /\ outcome = "ok"
       /\ fs' = WriteFile(fs, OutputName(videos),
                          StitchedOutput(fs, videos, backgroundAudio))
       /\ pc' = "read"
       /\ UNCHANGED <<videos, backgroundAudio, needsReencode, command,
                      junctions, stitchResult>>
    \/ /\ outcome = "nonzero"
       /\ pc' = "read"
       /\ UNCHANGED <<videos, backgroundAudio, needsReencode, command,
                      junctions, stitchResult, fs>>
    \/ /\ outcome = "throw"
       /\ stitchResult' = Failure(ExecErrorMessage(needsReencode))
       /\ pc' = "failed"
       /\ videos' = <<>>
       /\ command' = NoCommand
       /\ junctions' = <<>>
       /\ UNCHANGED <<backgroundAudio, needsReencode, fs>>

StitchExec ==
    /\ pc = "exec"
    /\ \E outcome \in {"ok", "nonzero", "throw"} : StitchExecOutcome(outcome)
    /\ UNCHANGED <<planned, previewVars, secondVars, serviceVars, authVars, stitcherVars>>

\* Lines 224-231: read the output file.
StitchRead ==
    /\ pc = "read"
    /\ IF Exists(fs, OutputName(videos))
       THEN /\ stitchResult' = [status |-> "read", data |-> fs[OutputName(videos)]]
            /\ pc' = "cleanup"
            /\ UNCHANGED <<videos, command, junctions>>
       ELSE /\ stitchResult' = Failure("Failed to read the output video from memory. It might be too large or the process failed.")
            /\ pc' = "failed"
            /\ videos' = <<>>
            /\ command' = NoCommand
            /\ junctions' = <<>>
    /\ UNCHANGED <<backgroundAudio, needsReencode, fs>>
    /\ UNCHANGED <<planned, previewVars, secondVars, serviceVars, authVars, stitcherVars>>

\* Lines 233-254: delete the intermediates, return the blob URL.  Each
\* deleteFile is in a try/catch of its own: the files of `kept` are those
\* whose deletion the engine rejected.
StitchCleanupLeaving(kept) ==
    /\ pc = "cleanup"
    /\ LET f == DeleteIntermediates(fs, videos, backgroundAudio, needsReencode)
       IN  fs' = [x \in DOMAIN f \cup kept |-> fs[x]]
    /\ stitchResult' = [status |-> "ok",
                        blob |-> [data |-> stitchResult.data,
                                  type |-> Mime(videos[1])]]
    /\ pc' = "done"
    /\ videos' = <<>>
    /\ command' = NoCommand
    /\ junctions' = <<>>
    /\ UNCHANGED <<backgroundAudio, needsReencode>>
    /\ UNCHANGED <<planned, previewVars, secondVars, serviceVars, authVars, stitcherVars>>

StitchCleanup == StitchCleanupLeaving({})

\* The cleanup when the engine rejects one of its deleteFile calls.
StitchCleanupDeleteFails ==
    /\ pc = "cleanup"
    /\ \E name \in DOMAIN fs :
          /\ ~Exists(DeleteIntermediates(fs, videos, backgroundAudio,
                                         needsReencode), name)
          /\ StitchCleanupLeaving({name})

(***************************************************************************)
(* A second stitchVideos call on the same service (the module's singleton, *)
(* line 626) and engine, begun while the first may still be running.  Its  *)
(* steps are the steps above; it keeps its arguments when it has settled.  *)
(***************************************************************************)
Stitch2Begin(vs, bg) ==
    /\ pc2 = "idle"
    /\ videos2' = vs
    /\ backgroundAudio2' = bg
    /\ fs' = WriteInputs(fs, vs, bg)
    /\ stitchResult2' = NoResult
    /\ pc2' = "exec"
    /\ UNCHANGED <<stitchVars, previewVars, stitcherVars, serviceVars, authVars>>

Stitch2Exec ==
    /\ pc2 = "exec"
    /\ \E outcome \in {"ok", "nonzero", "throw"} :
          \/ /\ outcome = "ok"
             /\ fs' = WriteFile(fs, OutputName(videos2),
                                StitchedOutput(fs, videos2, backgroundAudio2))
             /\ pc2' = "read"
             /\ UNCHANGED stitchResult2
          \/ /\ outcome = "nonzero"
             /\ pc2' = "read"
             /\ UNCHANGED <<stitchResult2, fs>>
          \/ /\ outcome = "throw"
             /\ stitchResult2' =
                   Failure(ExecErrorMessage(
                              NeedsReencode(videos2, backgroundAudio2)))
             /\ pc2' = "failed"
             /\ UNCHANGED fs
    /\ UNCHANGED <<videos2, backgroundAudio2>>
    /\ UNCHANGED <<stitchVars, previewVars, stitcherVars, serviceVars, authVars>>

Stitch2Read ==
    /\ pc2 = "read"
    /\ IF Exists(fs, OutputName(videos2))
       THEN /\ stitchResult2' =
                  [status |-> "read", data |-> fs[OutputName(videos2)]]
            /\ pc2' = "cleanup"
       ELSE /\ stitchResult2' = Failure("Failed to read the output video from memory. It might be too large or the process failed.")
            /\ pc2' = "failed"
    /\ UNCHANGED <<videos2, backgroundAudio2, fs>>
    /\ UNCHANGED <<stitchVars, previewVars, stitcherVars, serviceVars, authVars>>

Stitch2Cleanup ==
    /\ pc2 = "cleanup"
    /\ fs' = DeleteIntermediates(fs, videos2, backgroundAudio2,
                                 NeedsReencode(videos2, backgroundAudio2))
    /\ stitchResult2' = [status |-> "ok",
                         blob |-> [data |-> stitchResult2.data,
                                   type |-> Mime(videos2[1])]]
    /\ pc2' = "done"
    /\ UNCHANGED <<videos2, backgroundAudio2>>
    /\ UNCHANGED <<stitchVars, previewVars, stitcherVars, serviceVars, authVars>>


(***************************************************************************)
(* VideoStitcher (part_004): the clip list and its handlers.  Every file   *)
(* uploaded is probed as 640x360, 5 seconds; ids are the upload numbers.   *)
(* The component's backgroundAudio stays null, as useState(null) leaves it *)
(* (the audio popup is outside this model).                                *)
(***************************************************************************)
ValidationError == "Add at least two videos to stitch."
UploadError == "Failed to load videos."

\* newFiles.push({ id, file, thumbnail, duration, width, height, transition })
UploadedClip(id) ==
    [id |-> id,
     file |-> [name |-> <<"clip", "mp4">>, type |-> "video/mp4"],
     width |-> 640, height |-> 360, duration |-> 5,
     transition |-> Transition(TransitionType.NONE, 1)]

Ids(items) == {items[k].id : k \in 1..Len(items)}
FindIndex(items, id) == CHOOSE k \in 1..Len(items) : items[k].id = id

\* arrayMove of @dnd-kit/sortable: take the item out, put it in at `to`.
ArrayMove(items, from, to) ==
    LET rest == [k \in 1..(Len(items) - 1) |->
                    IF k < from THEN items[k] ELSE items[k + 1]]
    IN  [k \in 1..Len(items) |->
            IF k < to THEN rest[k]
            ELSE IF k = to THEN items[from]
            ELSE rest[k - 1]]

\* handleFileUpload with n files; `loaded`: every thumbnail was generated.
HandleFileUpload(n, metadataLoaded) ==
    /\ n >= 1
    /\ uploaded + n <= MaxUploads
    /\ uploaded' = uploaded + n
    /\ IF metadataLoaded
       THEN /\ stitcherVideos' =
                  stitcherVideos \o [k \in 1..n |-> UploadedClip(uploaded + k)]
            /\ status' = [status EXCEPT !.isProcessing = FALSE]
       ELSE /\ stitcherVideos' = stitcherVideos
            /\ status' = [status EXCEPT !.error = UploadError,
                                        !.isProcessing = FALSE]
    /\ UNCHANGED <<resultVideoUrl, stitchVars, fs, previewVars, secondVars, serviceVars, authVars>>

HandleDragEnd(active, over) ==
    /\ active \in Ids(stitcherVideos)
    /\ over \in Ids(stitcherVideos)
    /\ active # over
    /\ stitcherVideos' = ArrayMove(stitcherVideos,
                                   FindIndex(stitcherVideos, active),
                                   FindIndex(stitcherVideos, over))
    /\ UNCHANGED <<status, resultVideoUrl, uploaded>>
    /\ UNCHANGED <<stitchVars, fs, previewVars, secondVars, serviceVars, authVars>>

HandleRemove(id) ==
    /\ id \in Ids(stitcherVideos)
    /\ stitcherVideos' =
          LET Kept(v) == v.id # id IN SelectSeq(stitcherVideos, Kept)
    /\ UNCHANGED <<status, resultVideoUrl, uploaded>>
    /\ UNCHANGED <<stitchVars, fs, previewVars, secondVars, serviceVars, authVars>>

ValidateVideos_AtLeastOne == ~(Len(stitcherVideos) < 1)

\* validateVideos: false (with the error recorded by the caller below) when
\* videos.length < 2.
ValidateVideos == ~(Len(stitcherVideos) < 2)

\* handleStitch up to its await.  The Stitch button is disabled while
\* status.isProcessing, so no second call starts while one is running.
HandleStitch ==
    IF ~ValidateVideos
    THEN /\ status' = [status EXCEPT !.error = ValidationError]
         /\ UNCHANGED <<stitcherVideos, resultVideoUrl, uploaded>>
         /\ UNCHANGED <<stitchVars, fs, previewVars, secondVars, serviceVars, authVars>>
    ELSE /\ pc = "idle"
         /\ status' = [isProcessing |-> TRUE, error |-> Null]
         /\ StitchBegin(stitcherVideos, FALSE)
         /\ UNCHANGED <<planned, stitcherVideos, resultVideoUrl, uploaded>>

\* handleStitch after its await: the url, or the catch block; then finally.
HandleStitchSettled ==
    /\ pc \in {"done", "failed"}
    /\ IF pc = "done"
       THEN /\ resultVideoUrl' = <<stitchResult.blob>>
            /\ status' = [status EXCEPT !.isProcessing = FALSE]
       ELSE /\ resultVideoUrl' = resultVideoUrl
            /\ status' = [status EXCEPT !.error = stitchResult.message,
                                        !.isProcessing = FALSE]
    /\ pc' = "idle"
    /\ UNCHANGED <<videos, backgroundAudio, needsReencode, command, junctions,
                   stitchResult, planned, fs>>
    /\ UNCHANGED <<stitcherVideos, uploaded, previewVars, secondVars, serviceVars, authVars>>


(***************************************************************************)
(* getPreviewFrame (ffmpegService.ts 465-579), one action per engine call. *)
(* The engine is taken as loaded.  A log message is delivered to the       *)
(* listeners while exec runs; the Error that logCallback throws on the     *)
(* buffer-reallocation signature is taken to reject that exec, which is    *)
(* what the catch block of the source expects.                             *)
(***************************************************************************)
PreviewInputName == "preview_input.mp4"
PreviewOutputName == "preview_frame.jpg"

\* Number.prototype.toFixed(3) of a whole number of seconds.
ToFixed3(time) == ToString(time) \o ".000"

PreviewFilter(req) ==
    IF req.mode = "remove"
    THEN "delogo=x=" \o ToString(req.x) \o ":y=" \o ToString(req.y)
         \o ":w=" \o ToString(req.width) \o ":h=" \o ToString(req.height)
         \o ":show=0"
    ELSE "crop=" \o ToString(req.width) \o ":" \o ToString(req.height)
         \o ":" \o ToString(req.x) \o ":" \o ToString(req.y)

PreviewCommand(req) ==
    <<"-ss", ToFixed3(req.time), "-i", PreviewInputName,
      "-vf", PreviewFilter(req),
      "-frames:v", "1", "-q:v", "2", PreviewOutputName>>

FallbackCommand(req) ==
    <<"-ss", ToFixed3(req.time), "-i", PreviewInputName,
      "-frames:v", "1", "-q:v", "2", PreviewOutputName>>

\* The message of the Error that logCallback throws on the signature.
BufferReallocation == "BUFFER_REALLOCATION_FAILED"
PreviewFailed ==
    "Preview generation failed due to video format limitations. Try a different video or time position."

IsBufferReallocation_AnyError(e) == TRUE

\* e instanceof Error && e.message === 'BUFFER_REALLOCATION_FAILED'
IsBufferReallocation(e) == e = BufferReallocation

FallbackSucceeded_Inverted(fallbackRet) == fallbackRet # 0

\* if (fallbackRet === 0)
FallbackSucceeded(fallbackRet) == fallbackRet = 0

\* The value following a flag in an argument vector ("" when absent).
ArgAfter(argv, flag) ==
    IF \E k \in 1..(Len(argv) - 1) : argv[k] = flag
    THEN argv[(CHOOSE k \in 1..(Len(argv) - 1) : argv[k] = flag) + 1]
    ELSE ""

\* The frame the engine writes for a one-frame extraction command.
EngineFrame(f, argv) ==
    [source |-> ReadAll(f, <<ArgAfter(argv, "-i")>>),
     ss     |-> ArgAfter(argv, "-ss"),
     vf     |-> ArgAfter(argv, "-vf")]

\* How an exec of the engine can end.  "ok": exit code 0, the frame
\* written.  "nooutput": exit code 0, nothing written.  "nonzero": exit
\* code 1.  "throw": exec rejects.  "signature": the log stream carries
\* 'Buffer reallocation failed' (only a registered logCallback throws).
ExecOutcomes == {"ok", "nooutput", "nonzero", "throw", "signature"}
ExitCode(outcome) == IF outcome \in {"ok", "nooutput"} THEN 0 ELSE 1

Logged(op, arg, outcome) == [op |-> op, arg |-> arg, outcome |-> outcome]

\* Lines 475-492: register logCallback.
PreviewBegin(req) ==
    /\ ppc = "idle"
    /\ previewReq' = req
    /\ logListener' = TRUE
    /\ engineLog' = <<>>
    /\ previewResult' = NoResult
    /\ ppc' = "write"
    /\ UNCHANGED <<fs>>
    /\ UNCHANGED <<stitchVars, secondVars, serviceVars, authVars, stitcherVars>>

\* The outer catch for an error that is not the signature, then finally:
\* delete both files (failures swallowed), rethrow e, remove the listener.
PreviewRethrow(e, log) ==
    /\ fs' = DeleteFile(DeleteFile(fs, PreviewInputName), PreviewOutputName)
    /\ engineLog' = log
          \o <<Logged("deleteFile", PreviewInputName,
                      IF Exists(fs, PreviewInputName) THEN "ok" ELSE "throw"),
               Logged("deleteFile", PreviewOutputName,
                      IF Exists(fs, PreviewOutputName) THEN "ok" ELSE "throw")>>
    /\ previewResult' = Failure(e)
    /\ logListener' = FALSE
    /\ ppc' = "done"

PreviewGiveUp_KeepsListener(f, log) ==
    /\ fs' = f
    /\ engineLog' = log
    /\ previewResult' = Failure(PreviewFailed)
    /\ ppc' = "done"
    /\ UNCHANGED logListener

\* The throw that ends the fallback, then finally.
PreviewGiveUp(f, log) ==
    /\ fs' = f
    /\ engineLog' = log
    /\ previewResult' = Failure(PreviewFailed)
    /\ logListener' = FALSE
    /\ ppc' = "done"

\* The outer catch block (lines 531-575) for error e.
PreviewCatch(e, log) ==
    IF IsBufferReallocation(e)
    THEN /\ ppc' = "fallbackWrite"
         /\ engineLog' = log
         /\ UNCHANGED <<fs, previewResult, logListener>>
    ELSE PreviewRethrow(e, log)

\* Line 495: writeFile(inputName, ...)
PreviewWrite ==
    /\ ppc = "write"
    /\ \E outcome \in {"ok", "throw"} :
          LET log == Append(engineLog, Logged("writeFile", PreviewInputName, outcome))
          IN  IF outcome = "ok"
              THEN /\ fs' = WriteFile(fs, PreviewInputName, previewReq.file)
                   /\ engineLog' = log
                   /\ ppc' = "exec"
                   /\ UNCHANGED <<previewResult, logListener>>
              ELSE PreviewCatch("writeFile failed", log)
    /\ UNCHANGED <<previewReq>>
    /\ UNCHANGED <<stitchVars, secondVars, serviceVars, authVars, stitcherVars>>

\* Lines 497-518: the filtered extraction.
PreviewExec ==
    /\ ppc = "exec"
    /\ \E outcome \in ExecOutcomes :
          LET argv == PreviewCommand(previewReq)
              log  == Append(engineLog, Logged("exec", argv, outcome))
          IN  CASE outcome = "ok" ->
                     /\ fs' = WriteFile(fs, PreviewOutputName, EngineFrame(fs, argv))
                     /\ engineLog' = log
                     /\ ppc' = "read"
                     /\ UNCHANGED <<previewResult, logListener>>
                [] outcome = "nooutput" ->
                     /\ engineLog' = log
                     /\ ppc' = "read"
                     /\ UNCHANGED <<fs, previewResult, logListener>>
                [] outcome = "nonzero" ->
                     PreviewCatch("FFmpeg exited with code " \o ToString(ExitCode(outcome)), log)
                [] outcome = "throw" ->
                     PreviewCatch("exec failed", log)
                [] outcome = "signature" ->
                     /\ logListener
                     /\ PreviewCatch(BufferReallocation, log)
    /\ UNCHANGED <<previewReq>>
    /\ UNCHANGED <<stitchVars, secondVars, serviceVars, authVars, stitcherVars>>

PreviewReturn(data, log) ==
    /\ fs' = DeleteFile(DeleteFile(fs, PreviewInputName), PreviewOutputName)
    /\ engineLog' = log
          \o <<Logged("deleteFile", PreviewInputName, "ok"),
               Logged("deleteFile", PreviewOutputName, "ok")>>
    /\ previewResult' = [status |-> "ok",
                         blob |-> [data |-> data, type |-> "image/jpeg"]]
    /\ logListener' = FALSE
    /\ ppc' = "done"

\* Lines 520-530: read the frame, delete the files, return the blob URL.
\* readFile and deleteFile throw for a file that does not exist; readFile
\* without an encoding returns binary data, never a string.
PreviewRead ==
    /\ ppc = "read"
    /\ IF ~Exists(fs, PreviewOutputName)
       THEN PreviewCatch("readFile failed",
                Append(engineLog, Logged("readFile", PreviewOutputName, "throw")))
       ELSE LET log == Append(engineLog, Logged("readFile", PreviewOutputName, "ok"))
            IN  IF ~Exists(fs, PreviewInputName)
                THEN PreviewCatch("deleteFile failed",
                         Append(log, Logged("deleteFile", PreviewInputName, "throw")))
                ELSE PreviewReturn(fs[PreviewOutputName], log)
    /\ UNCHANGED <<previewReq>>
    /\ UNCHANGED <<stitchVars, secondVars, serviceVars, authVars, stitcherVars>>

\* Lines 540-541: delete and rewrite the input before the retry.
PreviewFallbackWrite ==
    /\ ppc = "fallbackWrite"
    /\ IF ~Exists(fs, PreviewInputName)
       THEN PreviewGiveUp(fs, Append(engineLog,
                Logged("deleteFile", PreviewInputName, "throw")))
       ELSE \E outcome \in {"ok", "throw"} :
              LET log == engineLog
                         \o <<Logged("deleteFile", PreviewInputName, "ok"),
                              Logged("writeFile", PreviewInputName, outcome)>>
              IN  IF outcome = "ok"
                  THEN /\ fs' = WriteFile(fs, PreviewInputName, previewReq.file)
                       /\ engineLog' = log
                       /\ ppc' = "fallbackExec"
                       /\ UNCHANGED <<previewResult, logListener>>
                  ELSE PreviewGiveUp(DeleteFile(fs, PreviewInputName), log)
    /\ UNCHANGED <<previewReq>>
    /\ UNCHANGED <<stitchVars, secondVars, serviceVars, authVars, stitcherVars>>

\* Lines 543-552: the retry without the filter.
PreviewFallbackExec ==
    /\ ppc = "fallbackExec"
    /\ \E outcome \in ExecOutcomes :
          LET argv == FallbackCommand(previewReq)
              log  == Append(engineLog, Logged("exec", argv, outcome))
          IN  /\ outcome = "signature" => logListener
              /\ IF outcome \in {"throw", "signature"}
                 THEN PreviewGiveUp(fs, log)
                 ELSE IF FallbackSucceeded(ExitCode(outcome))
                 THEN /\ fs' = IF outcome = "ok"
                               THEN WriteFile(fs, PreviewOutputName, EngineFrame(fs, argv))
                               ELSE fs
                      /\ engineLog' = log
                      /\ ppc' = "fallbackRead"
                      /\ UNCHANGED <<previewResult, logListener>>
                 ELSE PreviewGiveUp(fs, log)
    /\ UNCHANGED <<previewReq>>
    /\ UNCHANGED <<stitchVars, secondVars, serviceVars, authVars, stitcherVars>>

\* Lines 553-562: read the unfiltered frame, delete the files, return.
PreviewFallbackRead ==
    /\ ppc = "fallbackRead"
    /\ IF ~Exists(fs, PreviewOutputName)
       THEN PreviewGiveUp(fs,
                Append(engineLog, Logged("readFile", PreviewOutputName, "throw")))
       ELSE LET log == Append(engineLog, Logged("readFile", PreviewOutputName, "ok"))
            IN  IF ~Exists(fs, PreviewInputName)
                THEN PreviewGiveUp(fs,
                         Append(log, Logged("deleteFile", PreviewInputName, "throw")))
                ELSE PreviewReturn(fs[PreviewOutputName], log)
    /\ UNCHANGED <<previewReq>>
    /\ UNCHANGED <<stitchVars, secondVars, serviceVars, authVars, stitcherVars>>

\* Lines 520-523 when the engine rejects deleteFile of an existing file:
\* the error reaches the outer catch, which deletes again (failures
\* swallowed) and rethrows it.
PreviewReadDeleteFails ==
    /\ ppc = "read"
    /\ Exists(fs, PreviewOutputName)
    /\ Exists(fs, PreviewInputName)
    /\ \E name \in {PreviewInputName, PreviewOutputName} :
          LET f == IF name = PreviewOutputName
                   THEN DeleteFile(fs, PreviewInputName)
                   ELSE fs
          IN  /\ fs' = DeleteFile(DeleteFile(f, PreviewInputName), PreviewOutputName)
              /\ engineLog' = engineLog
                    \o <<Logged("readFile", PreviewOutputName, "ok")>>
                    \o (IF name = PreviewOutputName
                        THEN <<Logged("deleteFile", PreviewInputName, "ok")>>
                        ELSE <<>>)
                    \o <<Logged("deleteFile", name, "throw"),
                         Logged("deleteFile", PreviewInputName,
                                IF Exists(f, PreviewInputName) THEN "ok" ELSE "throw"),
                         Logged("deleteFile", PreviewOutputName, "ok")>>
    /\ previewResult' = Failure("deleteFile failed")
    /\ logListener' = FALSE
    /\ ppc' = "done"
    /\ UNCHANGED <<previewReq>>
    /\ UNCHANGED <<stitchVars, secondVars, serviceVars, authVars, stitcherVars>>

\* Lines 553-556 when the engine rejects deleteFile of an existing file:
\* the error is caught at line 564 and the call throws the preview failure.
PreviewFallbackReadDeleteFails ==
    /\ ppc = "fallbackRead"
    /\ Exists(fs, PreviewOutputName)
    /\ Exists(fs, PreviewInputName)
    /\ \E name \in {PreviewInputName, PreviewOutputName} :
          PreviewGiveUp(IF name = PreviewOutputName
                        THEN DeleteFile(fs, PreviewInputName)
                        ELSE fs,
                        engineLog
                        \o <<Logged("readFile", PreviewOutputName, "ok")>>
                        \o (IF name = PreviewOutputName
                            THEN <<Logged("deleteFile", PreviewInputName, "ok")>>
                            ELSE <<>>)
                        \o <<Logged("deleteFile", name, "throw")>>)
    /\ UNCHANGED <<previewReq>>
    /\ UNCHANGED <<stitchVars, secondVars, serviceVars, authVars, stitcherVars>>

(***************************************************************************)
(* FFmpegService: the engine instance, its loading (ffmpegService.ts 5-40) *)
(* and the entry of every operation (48-51, 355-358, 475-478).  A call     *)
(* runs from one await to the next; the other calls of the page run at its *)
(* awaits.  An instance whose load has not completed rejects writeFile and *)
(* exec.  An event of the engine is delivered to every listener that is    *)
(* registered for it on the instance.                                      *)
(***************************************************************************)
NoEngine == 0
NoEvent == [job |-> 0, event |-> "", callbacks |-> {}]

\* new FFmpeg()
NewFFmpeg == [state |-> "created", listeners |-> <<>>]

Operations == {"load", "stitchVideos", "trimVideo", "getPreviewFrame"}
Call(op, at, created, engine) ==
    [op |-> op, at |-> at, created |-> created, engine |-> engine]

\* ffmpeg.on(event, <callback of call c>) and ffmpeg.off(event, <it>) on e.
Listener(event, c) == [event |-> event, call |-> c]
On(es, e, event, c) ==
    [es EXCEPT ![e].listeners = Append(@, Listener(event, c))]
Off(es, e, event, c) ==
    [es EXCEPT ![e].listeners = SelectSeq(@, LAMBDA l : l # Listener(event, c))]

\* Lines 52 and 492: the listener an operation registers before its writes.
Entered(es, e, op, c) ==
    IF op \in {"stitchVideos", "getPreviewFrame"} THEN On(es, e, "log", c) ELSE es

\* Lines 89 and 364: the listener it registers after them.
Written(es, e, op, c) ==
    IF op \in {"stitchVideos", "trimVideo"} THEN On(es, e, "progress", c) ELSE es

\* Lines 576-578: the finally of getPreviewFrame; no other operation has one.
Left(es, e, op, c) ==
    IF op = "getPreviewFrame" THEN Off(es, e, "log", c) ELSE es

\* Lines 10-29: load() up to its first await, past `if (this.loaded) return`.
LoadBegin(op) ==
    /\ engines' = Append(engines, NewFFmpeg)
    /\ ffmpeg' = Len(engines) + 1
    /\ calls' = Append(calls, Call(op, "loading", Len(engines) + 1, NoEngine))
    /\ UNCHANGED <<loaded, invoked>>

\* A call of the service, up to its first await: load() itself, or an
\* operation with its guard `if (!this.ffmpeg || !this.loaded)`.
ServiceCall(op) ==
    /\ Len(calls) < MaxOps
    /\ IF op = "load"
       THEN IF loaded
            THEN /\ calls' = Append(calls, Call(op, "done", NoEngine, NoEngine))
                 /\ UNCHANGED <<ffmpeg, loaded, engines, invoked>>
            ELSE LoadBegin(op)
       ELSE IF ffmpeg = NoEngine \/ ~loaded
            THEN LoadBegin(op)
            ELSE /\ calls' = Append(calls, Call(op, "ready", NoEngine, ffmpeg))
                 /\ engines' = Entered(engines, ffmpeg, op, Len(calls) + 1)
                 /\ UNCHANGED <<ffmpeg, loaded, invoked>>
    /\ UNCHANGED <<stitchVars, fs, previewVars, secondVars, stitcherVars, authVars>>

\* Lines 27-39: the load of the instance this call constructed settles; the
\* operation goes on with `const ffmpeg = this.ffmpeg!`.
LoadSettle(c, ok) ==
    /\ c \in 1..Len(calls)
    /\ calls[c].at = "loading"
    /\ LET mine == calls[c].created
           es   == [engines EXCEPT
                      ![mine].state = IF ok THEN "loaded" ELSE "failed"]
       IN  IF ~ok
           THEN /\ engines' = es
                /\ calls' = [calls EXCEPT ![c].at = "failed"]
                /\ UNCHANGED loaded
           ELSE /\ loaded' = TRUE
                /\ IF calls[c].op = "load"
                   THEN /\ engines' = es
                        /\ calls' = [calls EXCEPT ![c].at = "done"]
                   ELSE /\ engines' = Entered(es, ffmpeg, calls[c].op, c)
                        /\ calls' = [calls EXCEPT ![c].at = "ready",
                                                  ![c].engine = ffmpeg]
    /\ UNCHANGED <<ffmpeg, invoked>>
    /\ UNCHANGED <<stitchVars, fs, previewVars, secondVars, stitcherVars, authVars>>

\* The first writeFile of the operation, on the instance it holds.
OpWrite(c) ==
    /\ c \in 1..Len(calls)
    /\ calls[c].at = "ready"
    /\ LET e == calls[c].engine
       IN  IF engines[e].state = "loaded"
           THEN /\ engines' = Written(engines, e, calls[c].op, c)
                /\ calls' = [calls EXCEPT ![c].at = "running"]
           ELSE /\ engines' = Left(engines, e, calls[c].op, c)
                /\ calls' = [calls EXCEPT ![c].at = "rejected"]
    /\ UNCHANGED <<ffmpeg, loaded, invoked>>
    /\ UNCHANGED <<stitchVars, fs, previewVars, secondVars, stitcherVars, authVars>>

\* The engine raises an event while it runs the job of call c.
EngineEmit(c, event) ==
    /\ c \in 1..Len(calls)
    /\ calls[c].at = "running"
    /\ LET ls == engines[calls[c].engine].listeners
       IN  invoked' = [job |-> c, event |-> event,
                       callbacks |-> {ls[k].call :
                                        k \in {j \in 1..Len(ls) :
                                                 ls[j].event = event}}]
    /\ UNCHANGED <<ffmpeg, loaded, engines, calls>>
    /\ UNCHANGED <<stitchVars, fs, previewVars, secondVars, stitcherVars, authVars>>

\* The operation returns or throws.
OpSettle(c, ok) ==
    /\ c \in 1..Len(calls)
    /\ calls[c].at = "running"
    /\ engines' = Left(engines, calls[c].engine, calls[c].op, c)
    /\ calls' = [calls EXCEPT ![c].at = IF ok THEN "done" ELSE "failed"]
    /\ UNCHANGED <<ffmpeg, loaded, invoked>>
    /\ UNCHANGED <<stitchVars, fs, previewVars, secondVars, stitcherVars, authVars>>

(***************************************************************************)
(* AuthWrapper (ffmpegService.ts 893-1051).  The identity widget holds the *)
(* logged-in user and raises 'login' and 'logout'; the expiry entry is in  *)
(* localStorage; both outlive the page.  Time is in units of which         *)
(* ONE_MONTH_MS is OneMonth.                                               *)
(***************************************************************************)
ALLOWED_EMAILS == {"edwin@editsolutions.nl", "winski123@hotmail.com"}
OneMonth == 2

\* The accounts that can log in; "" stands for a user without an e-mail.
Emails == ALLOWED_EMAILS \cup {"Edwin@editsolutions.nl", "guest@example.com", ""}

IsAllowed_AnyUser(u) == u # <<>>

\* user && user.email && ALLOWED_EMAILS.includes(user.email)
IsAllowed(u) == u # <<>> /\ u[1] # "" /\ u[1] \in ALLOWED_EMAILS

\* expiry && now > parseInt(expiry)
SessionExpired(e, t) == e # <<>> /\ t > e[1]

\* Lines 970-1048: which of the four screens the wrapper renders.
Screen ==
    IF ~isInitialized THEN "spinner"
    ELSE IF authUser = <<>> THEN "login"
    ELSE IF ~IsAllowed(authUser) THEN "denied"
    ELSE "children"

\* Lines 911-956: the effect on mount: checkAndExtendSession, then the
\* handlers are registered.
AuthInitialise ==
    /\ ~isInitialized
    /\ IF currentUser # <<>>
       THEN IF SessionExpired(expiry, now)
            THEN /\ logoutPending' = TRUE
                 /\ authUser' = <<>>
                 /\ expiry' = <<>>
            ELSE /\ expiry' = <<now + OneMonth>>
                 /\ authUser' = currentUser
                 /\ UNCHANGED logoutPending
       ELSE /\ authUser' = <<>>
            /\ expiry' = <<>>
            /\ UNCHANGED logoutPending
    /\ isInitialized' = TRUE
    /\ listening' = TRUE
    /\ UNCHANGED <<currentUser, now>>
    /\ UNCHANGED programVars

\* Lines 946-950: a user logs in through the widget; the 'login' handler.
OnLogin(email) ==
    /\ listening
    /\ currentUser = <<>>
    /\ ~logoutPending
    /\ currentUser' = <<email>>
    /\ expiry' = <<now + OneMonth>>
    /\ authUser' = <<email>>
    /\ UNCHANGED <<isInitialized, listening, logoutPending, now>>
    /\ UNCHANGED programVars

\* Lines 967-969: the logout button of the 'denied' and 'children' screens.
HandleLogout ==
    /\ Screen \in {"denied", "children"}
    /\ ~logoutPending
    /\ logoutPending' = TRUE
    /\ UNCHANGED <<authUser, isInitialized, listening, currentUser, expiry, now>>
    /\ UNCHANGED programVars

\* Lines 952-955: the widget has logged the user out; the 'logout' handler,
\* when it is registered.
OnLogout ==
    /\ logoutPending
    /\ logoutPending' = FALSE
    /\ currentUser' = <<>>
    /\ IF listening
       THEN expiry' = <<>> /\ authUser' = <<>>
       ELSE UNCHANGED <<expiry, authUser>>
    /\ UNCHANGED <<isInitialized, listening, now>>
    /\ UNCHANGED programVars

\* Lines 957-960 and 908-909: the page is left (the effect's cleanup) and
\* opened again with fresh component state.
AuthUnmount ==
    /\ isInitialized
    /\ authUser' = <<>>
    /\ isInitialized' = FALSE
    /\ listening' = FALSE
    /\ UNCHANGED <<currentUser, logoutPending, expiry, now>>
    /\ UNCHANGED programVars

\* Date.now() advances.
Tick ==
    /\ now < MaxTime
    /\ now' = now + 1
    /\ UNCHANGED <<authUser, isInitialized, listening, currentUser,
                   logoutPending, expiry>>
    /\ UNCHANGED programVars

(***************************************************************************)
(* Inputs.                                                                 *)
(***************************************************************************)
SeqsUpTo(S, n) == UNION {[1..k -> S] : k \in 1..n}

Resolutions == {<<640, 360>>, <<1280, 360>>, <<640, 720>>}
FileTypes == {"", "video/mp4", "video/webm"}
ClipName == <<"clip", "mp4">>

\* Clips of any resolution and type; per job, the transitions are all
\* absent, all NONE, or alternate between the two.
ClipStrategy(ty, r, t) == VideoFile(ClipName, ty, r[1], r[2], 5, t)
TransitionPatterns ==
    {<<NoTransition, NoTransition>>,
     <<Transition("none", 1), Transition("none", 1)>>,
     <<NoTransition, Transition("none", 1)>>}
JobsStrategy ==
    {[k \in 1..n |-> ClipStrategy(f[k][1], f[k][2], p[1 + (k % 2)])] :
        <<n, f, p>> \in
          {<<n, f, p>> \in
             (1..MaxClips) \X SeqsUpTo(FileTypes \X Resolutions, MaxClips)
             \X TransitionPatterns : Len(f) = n}}

\* Clips of one resolution and type; durations and transitions vary.
Durations == {0, 2, 5}
ChainTransitions ==
    {NoTransition, Transition("none", 1), Transition("fade", 0),
     Transition("fade", 1), Transition("fade", 3)}
ClipsChain ==
    {VideoFile(ClipName, "video/mp4", 640, 360, d, t) :
        d \in Durations, t \in ChainTransitions}
\* The last clip's duration is never read (the loop of line 154 ends before
\* it): it is 5 in every job.
JobsChain ==
    {vs \in SeqsUpTo(ClipsChain, MaxClips) : vs[Len(vs)].duration = 5}

\* Every clip carries a kind of the enumeration for 1 second: kind a on
\* the clips at even (0-based) positions, kind b on the others.
ClipKind(ty) == VideoFile(ClipName, "video/mp4", 640, 360, 5, Transition(ty, 1))
JobsKinds ==
    {[k \in 1..n |-> IF k % 2 = 1 THEN ClipKind(a) ELSE ClipKind(b)] :
        n \in 2..MaxClips, a \in TransitionValues, b \in TransitionValues}

\* First-clip file names whose extension, or whose stem, is one of the words
\* the generated names are made of; every clip of a job carries the name.
FileNames ==
    {<<"clip", "mp4">>, <<"clip", "MP4">>, <<"clip", "">>, <<"">>,
     <<"video">>, <<"input0">>, <<"filelist", "txt">>,
     <<"background_audio", "mp3">>, <<"archive", "tar", "filelist">>}
ClipNamed(name, ty) ==
    VideoFile(name, "video/mp4", 640, 360, 5, Transition(ty, 1))
JobsNames ==
    {[k \in 1..n |-> ClipNamed(name, ty)] :
        n \in 1..MaxClips, name \in FileNames, ty \in {"none", "fade"}}

(***************************************************************************)
(* Specifications.                                                         *)
(***************************************************************************)
Init ==
    /\ pc = "idle"
    /\ videos = <<>>
    /\ backgroundAudio = FALSE
    /\ needsReencode = FALSE
    /\ command = NoCommand
    /\ junctions = <<>>
    /\ stitchResult = NoResult
    /\ fs = EmptyFS
    /\ ppc = "idle"
    /\ previewReq = <<>>
    /\ logListener = FALSE
    /\ engineLog = <<>>
    /\ previewResult = NoResult
    /\ planned = <<>>
    /\ pc2 = "idle"
    /\ videos2 = <<>>
    /\ backgroundAudio2 = FALSE
    /\ stitchResult2 = NoResult
    /\ stitcherVideos = <<>>
    /\ status = [isProcessing |-> FALSE, error |-> Null]
    /\ resultVideoUrl = <<>>
    /\ uploaded = 0
    /\ ffmpeg = NoEngine
    /\ loaded = FALSE
    /\ engines = <<>>
    /\ calls = <<>>
    /\ invoked = NoEvent
    /\ authUser = <<>>
    /\ isInitialized = FALSE
    /\ listening = FALSE
    /\ currentUser = <<>>
    /\ logoutPending = FALSE
    /\ expiry = <<>>
    /\ now = 0

StitchRun == StitchExec \/ StitchRead \/ StitchCleanup

StitchStrategy ==
    /\ pc = "idle"
    /\ \E vs \in JobsStrategy, bg \in BOOLEAN : StitchBegin(vs, bg)
    /\ UNCHANGED <<planned, stitcherVars>>
NextStrategy == StitchStrategy \/ StitchRun
SpecStrategy == Init /\ [][NextStrategy]_vars

StitchChain ==
    /\ pc = "idle"
    /\ \E vs \in JobsChain, bg \in BOOLEAN : StitchBegin(vs, bg)
    /\ UNCHANGED <<planned, stitcherVars>>
NextChain == StitchChain \/ StitchRun
SpecChain == Init /\ [][NextChain]_vars

StitchKinds ==
    /\ pc = "idle"
    /\ \E vs \in JobsKinds, bg \in BOOLEAN : StitchBegin(vs, bg)
    /\ UNCHANGED <<planned, stitcherVars>>
NextKinds == StitchKinds \/ StitchRun
SpecKinds == Init /\ [][NextKinds]_vars

StitchNames ==
    /\ pc = "idle"
    /\ \E vs \in JobsNames, bg \in BOOLEAN : StitchBegin(vs, bg)
    /\ UNCHANGED <<planned, stitcherVars>>
NextNames == StitchNames \/ StitchRun
SpecNames == Init /\ [][NextNames]_vars

\* What an argument vector asks of the engine.
HasPair(argv, a, b) ==
    \E k \in 1..(Len(argv) - 1) : argv[k] = a /\ argv[k + 1] = b
HasToken(argv, a) == \E k \in 1..Len(argv) : argv[k] = a

UsesStreamCopy(cmd) ==
    /\ HasPair(cmd.argv, "-f", "concat")
    /\ HasPair(cmd.argv, "-i", "filelist.txt")
    /\ HasPair(cmd.argv, "-c", "copy")

UsesFilterGraph(cmd) ==
    /\ HasToken(cmd.argv, "-filter_complex")
    /\ HasPair(cmd.argv, "-c:v", "libx264")
    /\ HasPair(cmd.argv, "-c:a", "aac")
    /\ HasPair(cmd.argv, "-pix_fmt", "yuv420p")

\* stitchVideos called again and again on the one service: a job that is
\* stream-copied, one that is homogeneous with a transition, one with a
\* clip of another resolution, and the first job with background audio.
\* Calls that failed leave their files in the engine.
JobsRepeat ==
    LET a == VideoFile(ClipName, "video/mp4", 640, 360, 5, NoTransition)
        f == VideoFile(ClipName, "video/mp4", 640, 360, 5, Transition("fade", 1))
        b == VideoFile(ClipName, "video/mp4", 1280, 360, 5, NoTransition)
    IN  {<<<<a, a>>, FALSE>>, <<<<f, a>>, FALSE>>, <<<<a, b>>, FALSE>>,
         <<<<a, a>>, TRUE>>}

PlanOf(vs, bg) ==
    [videos |-> vs, backgroundAudio |-> bg,
     streamCopy |-> UsesStreamCopy(Command(vs, bg)),
     argv |-> Command(vs, bg).argv]

StitchRepeat ==
    /\ pc = "idle"
    /\ Len(planned) < MaxCalls
    /\ \E job \in JobsRepeat :
          /\ StitchBegin(job[1], job[2])
          /\ planned' = Append(planned, PlanOf(job[1], job[2]))
    /\ UNCHANGED stitcherVars

\* The call has settled; the service can be called again.
StitchReturn ==
    /\ pc \in {"done", "failed"}
    /\ pc' = "idle"
    /\ UNCHANGED <<videos, backgroundAudio, needsReencode, command, junctions,
                   stitchResult, planned, fs>>
    /\ UNCHANGED <<previewVars, secondVars, serviceVars, authVars, stitcherVars>>


\* Preview requests: both modes, a few regions and time points.
PreviewFile == [name |-> <<"clip", "mp4">>, type |-> "video/mp4"]
PreviewRegions == {<<0, 0, 64, 64>>, <<10, 20, 100, 50>>, <<300, 200, 80, 40>>}
PreviewTimes == {0, 2}
PreviewRequests ==
    {[file |-> PreviewFile, x |-> r[1], y |-> r[2], width |-> r[3],
      height |-> r[4], time |-> t, mode |-> m] :
        r \in PreviewRegions, t \in PreviewTimes, m \in {"remove", "crop"}}

GetPreviewFrame ==
    /\ ppc = "idle"
    /\ \E req \in PreviewRequests : PreviewBegin(req)
NextPreview ==
    \/ GetPreviewFrame
    \/ PreviewWrite
    \/ PreviewExec
    \/ PreviewRead
    \/ PreviewFallbackWrite
    \/ PreviewFallbackExec
    \/ PreviewFallbackRead
SpecPreview == Init /\ [][NextPreview]_vars

\* Repeated stitch calls, with one preview call at any point among them.
PreviewAmongCalls ==
    /\ ppc = "idle"
    /\ PreviewBegin([file |-> PreviewFile, x |-> 0, y |-> 0, width |-> 64,
                     height |-> 64, time |-> 0, mode |-> "remove"])
NextRepeat ==
    \/ StitchRepeat
    \/ StitchRun
    \/ StitchReturn
    \/ PreviewAmongCalls
    \/ PreviewWrite
    \/ PreviewExec
    \/ PreviewRead
    \/ PreviewFallbackWrite
    \/ PreviewFallbackExec
    \/ PreviewFallbackRead
SpecRepeat == Init /\ [][NextRepeat]_vars

\* The component: uploads, removals, reorders and stitch requests.
FileUploads ==
    \E n \in 1..MaxUploads, metadataLoaded \in BOOLEAN :
        HandleFileUpload(n, metadataLoaded)
DragEnds ==
    \E active \in 1..MaxUploads, over \in 1..MaxUploads :
        HandleDragEnd(active, over)
Removes == \E id \in 1..MaxUploads : HandleRemove(id)
NextStitcher ==
    \/ FileUploads
    \/ DragEnds
    \/ Removes
    \/ HandleStitch
    \/ StitchRun
    \/ HandleStitchSettled
SpecStitcher == Init /\ [][NextStitcher]_vars

\* Two calls on the one service, of jobs over two different files.
JobsConcurrent ==
    LET p == VideoFile(<<"p", "mp4">>, "video/mp4", 640, 360, 5, NoTransition)
        q == VideoFile(<<"q", "mp4">>, "video/mp4", 640, 360, 5, NoTransition)
    IN  {<<p, p>>, <<q, q, q>>}

StitchFirst ==
    /\ pc = "idle"
    /\ planned = <<>>
    /\ \E vs \in JobsConcurrent, bg \in BOOLEAN :
          /\ StitchBegin(vs, bg)
          /\ planned' = <<PlanOf(vs, bg)>>
    /\ UNCHANGED stitcherVars
StitchSecond ==
    /\ pc2 = "idle"
    /\ \E vs \in JobsConcurrent, bg \in BOOLEAN : Stitch2Begin(vs, bg)
NextConcurrent ==
    \/ StitchFirst
    \/ StitchRun
    \/ StitchSecond
    \/ Stitch2Exec
    \/ Stitch2Read
    \/ Stitch2Cleanup
SpecConcurrent == Init /\ [][NextConcurrent]_vars

\* One stitchVideos or getPreviewFrame call on an engine whose deleteFile
\* may be rejected.
StitchFaulty ==
    /\ pc = "idle"
    /\ ppc = "idle"
    /\ \E job \in JobsRepeat : StitchBegin(job[1], job[2])
    /\ UNCHANGED <<planned, stitcherVars>>
PreviewFaulty ==
    /\ pc = "idle"
    /\ GetPreviewFrame
NextFaults ==
    \/ StitchFaulty
    \/ StitchRun
    \/ StitchCleanupDeleteFails
    \/ PreviewFaulty
    \/ PreviewWrite
    \/ PreviewExec
    \/ PreviewRead
    \/ PreviewReadDeleteFails
    \/ PreviewFallbackWrite
    \/ PreviewFallbackExec
    \/ PreviewFallbackRead
    \/ PreviewFallbackReadDeleteFails
SpecFaults == Init /\ [][NextFaults]_vars

OnLogins == \E email \in Emails : OnLogin(email)
NextAuth ==
    \/ AuthInitialise
    \/ OnLogins
    \/ HandleLogout
    \/ OnLogout
    \/ AuthUnmount
    \/ Tick
SpecAuth == Init /\ [][NextAuth]_vars

ServiceCalls == \E op \in Operations : ServiceCall(op)
LoadSettles == \E c \in 1..MaxOps, ok \in BOOLEAN : LoadSettle(c, ok)
OpWrites == \E c \in 1..MaxOps : OpWrite(c)
EngineEmits == \E c \in 1..MaxOps, event \in {"log", "progress"} : EngineEmit(c, event)
OpSettles == \E c \in 1..MaxOps, ok \in BOOLEAN : OpSettle(c, ok)
NextService ==
    \/ ServiceCalls
    \/ LoadSettles
    \/ OpWrites
    \/ EngineEmits
    \/ OpSettles
SpecService == Init /\ [][NextService]_vars

(***************************************************************************)
(* Vocabulary of the properties.                                           *)
(***************************************************************************)
\* The call has built its command and not yet returned.
Planned == pc \in {"exec", "read", "cleanup"}

SameFormat(a, b) ==
    a.width = b.width /\ a.height = b.height /\ a.file.type = b.file.type

NonNone(v) == Len(v.transition) = 1 /\ v.transition[1].type # "none"

\* Junction k (1-based) lies between clips k and k+1 and is cross-faded
\* when clip k's transition is not NONE and lasts longer than 0.
Fading(v) == NonNone(v) /\ v.transition[1].duration > 0

RECURSIVE SumDuration(_, _)
SumDuration(vs, k) == IF k = 0 THEN 0 ELSE vs[k].duration + SumDuration(vs, k - 1)

RECURSIVE SumFade(_, _)
SumFade(vs, k) ==
    IF k = 0 THEN 0 ELSE vs[k].transition[1].duration + SumFade(vs, k - 1)

\* The stages of the graph with a given filter, in graph order.
RECURSIVE StagesOf(_, _)
StagesOf(stages, filter) ==
    IF stages = <<>> THEN <<>>
    ELSE (IF Head(stages).filter = filter THEN <<Head(stages)>> ELSE <<>>)
         \o StagesOf(Tail(stages), filter)

XfadeOffsets(cmd) ==
    LET x == StagesOf(cmd.filterComplex, "xfade")
    IN  [k \in 1..Len(x) |-> x[k].args.offset]

Producers(cmd, label) ==
    {k \in 1..Len(cmd.filterComplex) : cmd.filterComplex[k].out = label}

(***************************************************************************)
(* C1: a job of at least 2 clips in which some clip's width, height or     *)
(* mime type differs from another clip's is planned on the FilterGraph     *)
(* path and never on the stream-copy path.                                 *)
(***************************************************************************)
C1_MismatchForcesFilterGraph ==
    ( /\ Planned
      /\ Len(videos) >= 2
      /\ \E i, j \in 1..Len(videos) : ~SameFormat(videos[i], videos[j]) )
    => (UsesFilterGraph(command) /\ ~UsesStreamCopy(command))

\* Three clips without background audio; only the third one's type differs.
C1_Witness ==
    /\ Planned
    /\ Len(videos) = 3
    /\ ~backgroundAudio
    /\ SameFormat(videos[1], videos[2])
    /\ videos[3].width = videos[1].width
    /\ videos[3].height = videos[1].height
    /\ videos[3].file.type # videos[1].file.type
    /\ videos[1].file.type = "video/webm"
    /\ UsesFilterGraph(command)

(***************************************************************************)
(* C2: a job whose clips all have the first clip's width, height and mime  *)
(* type, whose transitions are all NONE or absent and that asks for no     *)
(* background audio is planned as StreamCopy, whatever the common mime     *)
(* type is (the empty type of an unprobed clip included).                  *)
(***************************************************************************)
C2_HomogeneousStreamCopy ==
    ( /\ Planned
      /\ \A i \in 1..Len(videos) : SameFormat(videos[i], videos[1])
      /\ \A i \in 1..Len(videos) : ~NonNone(videos[i])
      /\ ~backgroundAudio )
    => UsesStreamCopy(command)

(***************************************************************************)
(* C3: a job in which some clip carries a transition other than NONE, or   *)
(* that asks for background audio, is planned on the FilterGraph path      *)
(* ('-filter_complex' and the re-encode flags), also when its clips are    *)
(* homogeneous.                                                            *)
(***************************************************************************)
C3_TransitionOrAudioForcesFilterGraph ==
    ( /\ Planned
      /\ \/ \E i \in 1..Len(videos) : NonNone(videos[i])
         \/ backgroundAudio )
    => (UsesFilterGraph(command) /\ ~UsesStreamCopy(command))

\* Homogeneous clips, no background audio, a fade on the last clip only.
C3_Witness ==
    /\ Planned
    /\ Len(videos) = 3
    /\ ~backgroundAudio
    /\ ~needsReencode
    /\ ~NonNone(videos[1]) /\ ~NonNone(videos[2]) /\ NonNone(videos[3])
    /\ UsesFilterGraph(command)

(***************************************************************************)
(* C4: when every junction is cross-faded (a transition other than NONE,   *)
(* longer than 0), the xfade offset of junction i (1-based) is the sum of  *)
(* the durations of clips 1..i minus the sum of the transition durations   *)
(* of junctions 1..i; durations 5,5,5 with fades of 1 give offsets 4, 8.   *)
(***************************************************************************)
C4_XfadeOffsets ==
    ( /\ Planned
      /\ Len(videos) >= 2
      /\ \A k \in 1..(Len(videos) - 1) : Fading(videos[k]) )
    => /\ XfadeOffsets(command) =
            [k \in 1..(Len(videos) - 1) |->
                SumDuration(videos, k) - SumFade(videos, k)]
       /\ ( /\ \A k \in 1..Len(videos) : videos[k].duration = 5
            /\ \A k \in 1..(Len(videos) - 1) :
                   videos[k].transition[1].duration = 1 )
          => XfadeOffsets(command) =
                [k \in 1..(Len(videos) - 1) |-> 5 * k - k]

\* Three clips of 5 s with fades of 1 s: the offsets written are 4 and 8.
C4_Witness ==
    /\ Planned
    /\ Len(videos) = 3
    /\ \A k \in 1..3 : videos[k].duration = 5
    /\ \A k \in 1..2 : Fading(videos[k]) /\ videos[k].transition[1].duration = 1
    /\ XfadeOffsets(command) = <<4, 8>>

(***************************************************************************)
(* C5: at every junction where a cross-fade is emitted, the offset written *)
(* is not negative and not below the currentOffset held before that        *)
(* junction (a transition longer than the clip before it is clamped).      *)
(***************************************************************************)
C5_OffsetNeverBelowCurrentOffset ==
    \A k \in 1..Len(junctions) :
        ~junctions[k].plain =>
            /\ junctions[k].video.args.offset >= 0
            /\ junctions[k].video.args.offset >= junctions[k].currentOffset

(***************************************************************************)
(* C6: in the transition chain of a job of 3 or more clips, the first      *)
(* video input of junction i+1 is the buffer junction i produced, junction *)
(* 0 consumes the normalized first clip [v0], and [v] is derived from the  *)
(* last junction's buffer; without background audio the audio buffers and  *)
(* [a] are threaded the same way, starting from [0:a].                     *)
(***************************************************************************)
C6_LabelThreading ==
    ( Planned /\ Len(videos) >= 3 /\ junctions # <<>> )
    => LET n  == Len(junctions)
           fc == command.filterComplex
       IN  /\ n = Len(videos) - 1
           /\ \A k \in 1..n : \E m \in 1..Len(fc) : fc[m] = junctions[k].video
           /\ junctions[1].video.ins[1] = "[v0]"
           /\ \A k \in 1..(n - 1) :
                  junctions[k + 1].video.ins[1] = junctions[k].video.out
           /\ \A m \in Producers(command, "[v]") :
                  fc[m].ins = <<junctions[n].video.out>>
           /\ Cardinality(Producers(command, "[v]")) = 1
           /\ ~backgroundAudio =>
                /\ \A k \in 1..n :
                       /\ Len(junctions[k].audio) = 1
                       /\ \E m \in 1..Len(fc) : fc[m] = junctions[k].audio[1]
                /\ junctions[1].audio[1].ins[1] = "[0:a]"
                /\ \A k \in 1..(n - 1) :
                       junctions[k + 1].audio[1].ins[1] = junctions[k].audio[1].out
                /\ \A m \in Producers(command, "[a]") :
                       fc[m].ins = <<junctions[n].audio[1].out>>
                /\ Cardinality(Producers(command, "[a]")) = 1

\* Three clips, a cross-fade then a plain junction, the clips' own audio.
C6_Witness ==
    /\ Planned
    /\ Len(videos) = 3
    /\ ~backgroundAudio
    /\ Len(junctions) = 2
    /\ ~junctions[1].plain /\ junctions[2].plain
    /\ junctions[2].video.ins = <<"[vtemp0]", "[v2]">>
    /\ junctions[2].audio[1].ins = <<"[atemp0]", "[2:a]">>

(***************************************************************************)
(* C7: with background audio requested, the filter graph (with or without  *)
(* transitions) holds no audio concat and no acrossfade stage, reads no    *)
(* clip's audio stream, and holds exactly one stage producing [a]: the     *)
(* one that maps the background-audio input [N:a] to it.                   *)
(***************************************************************************)
C7_BackgroundAudioOnly ==
    ( Planned /\ backgroundAudio )
    => LET fc == command.filterComplex
           n  == Len(videos)
       IN  /\ \A m \in 1..Len(fc) :
                  /\ fc[m].filter # "acrossfade"
                  /\ fc[m].filter = "concat" => fc[m].args.a = 0
                  /\ \A x \in 1..Len(fc[m].ins), i \in 0..(n - 1) :
                         fc[m].ins[x] # InA(i)
           /\ Cardinality(Producers(command, "[a]")) = 1
           /\ \A m \in Producers(command, "[a]") :
                  fc[m].ins = <<InA(n)>> /\ fc[m].filter = "anull"
           /\ \A m \in 1..Len(fc) :
                  (\E x \in 1..Len(fc[m].ins) : fc[m].ins[x] = InA(n))
                  => fc[m].out = "[a]"
           /\ command.argv[2 * n + 1] = "-i"
           /\ command.argv[2 * n + 2] = "background_audio.mp3"

\* Background audio over a chain with a cross-fade and a plain junction.
C7_Witness ==
    /\ Planned
    /\ backgroundAudio
    /\ Len(junctions) = 2
    /\ ~junctions[1].plain /\ junctions[2].plain
    /\ Cardinality(Producers(command, "[a]")) = 1

(***************************************************************************)
(* C8: at a junction cross-faded with a kind of TransitionType other than  *)
(* NONE, the name in the xfade stage is 'slideleft' for slidelt,           *)
(* 'slideright' for slidert, and the enum's own value for any other kind.  *)
(***************************************************************************)
C8_TransitionNames ==
    Planned =>
      \A k \in 1..(Len(videos) - 1) :
        Fading(videos[k]) =>
          LET ty == videos[k].transition[1].type
              x  == {m \in 1..Len(command.filterComplex) :
                        command.filterComplex[m].out = VTemp(k - 1)}
          IN  /\ ty \in TransitionValues
              /\ Cardinality(x) = 1
              /\ \A m \in x :
                    /\ command.filterComplex[m].filter = "xfade"
                    /\ command.filterComplex[m].args.transition =
                          (CASE ty = TransitionType.SLIDELT -> "slideleft"
                             [] ty = TransitionType.SLIDERT -> "slideright"
                             [] OTHER -> ty)

\* slidelt, then slidert, then slidelt again..., and the names written.
C8_Witness ==
    /\ Planned
    /\ Len(videos) = 3
    /\ videos[1].transition[1].type = "slidelt"
    /\ videos[2].transition[1].type = "slidert"
    /\ LET x == StagesOf(command.filterComplex, "xfade")
       IN  /\ Len(x) = 2
           /\ x[1].args.transition = "slideleft"
           /\ x[2].args.transition = "slideright"


(***************************************************************************)
(* Vocabulary of the preview properties.                                   *)
(***************************************************************************)
RECURSIVE OpsOf(_, _)
OpsOf(log, op) ==
    IF log = <<>> THEN <<>>
    ELSE (IF Head(log).op = op THEN <<Head(log)>> ELSE <<>>) \o OpsOf(Tail(log), op)

Execs == OpsOf(engineLog, "exec")

\* The argument vector without its '-vf <filter>' pair.
RECURSIVE WithoutFilter(_)
WithoutFilter(argv) ==
    IF argv = <<>> THEN <<>>
    ELSE IF Head(argv) = "-vf" THEN Tail(Tail(argv))
    ELSE <<Head(argv)>> \o WithoutFilter(Tail(argv))

C10_OneRetryThenFailure ==
    /\ Len(Execs) <= 2
    /\ Len(Execs) = 2 => Execs[1].outcome = "signature"
    /\ ( /\ ppc = "done"
         /\ Len(Execs) = 2
         /\ Execs[2].outcome \in {"throw", "signature", "nonzero"} )
       => previewResult = Failure(PreviewFailed)

\* A finished call whose retry ended with a non-zero exit code.
C10_Witness ==
    /\ ppc = "done"
    /\ Len(Execs) = 2
    /\ Execs[1].outcome = "signature"
    /\ Execs[2].outcome = "nonzero"
    /\ previewResult = Failure(PreviewFailed)

(***************************************************************************)
(* C14: when the engine's exec fails during stitchVideos, the message      *)
(* thrown to the caller names the path that was attempted: the stream-copy *)
(* message when the stream-copy command was issued, the re-encoding        *)
(* message when the filter-graph command was issued (a homogeneous job     *)
(* with transitions included).                                             *)
(***************************************************************************)
C14_ExecErrorNamesAttemptedPath ==
    [][ (pc = "exec" /\ pc' = "failed")
        => /\ stitchResult'.status = "error"
           /\ UsesStreamCopy(command) =>
                 stitchResult'.message = ExecErrorMessage(FALSE)
           /\ UsesFilterGraph(command) =>
                 stitchResult'.message = ExecErrorMessage(TRUE) ]_vars

(***************************************************************************)
(* C15: a finished call, returned or thrown, leaves none of the files it   *)
(* wrote in the engine's file system: with no call in progress the file    *)
(* system is as empty as it was before the first call.                     *)
(***************************************************************************)
C15_NoFileLeftAfterAnyExit ==
    ( pc \in {"idle", "done", "failed"} /\ ppc \in {"idle", "done"} )
    => fs = EmptyFS

(***************************************************************************)
(* C17: the transition of the last clip is never consulted: the command    *)
(* planned for a job is the command of the same job with the last clip's   *)
(* transition taken away, on the same path.                                *)
(***************************************************************************)
WithoutLastTransition(vs) ==
    [k \in 1..Len(vs) |->
        IF k = Len(vs) THEN [vs[k] EXCEPT !.transition = NoTransition] ELSE vs[k]]

C17_LastTransitionNeverConsulted ==
    Planned =>
      LET other == Command(WithoutLastTransition(videos), backgroundAudio)
      IN  /\ UsesStreamCopy(command) <=> UsesStreamCopy(other)
          /\ command.argv = other.argv

(***************************************************************************)
(* C18: a junction whose clip lasts 0 seconds and carries a transition     *)
(* other than NONE of positive duration is emitted as a plain concat, and  *)
(* no offset below the currentOffset held before it is written for it.     *)
(***************************************************************************)
C18_ZeroDurationClipConcatenated ==
    \A k \in 1..Len(junctions) :
        ( /\ junctions[k].clipDuration = 0
          /\ junctions[k].type # "none"
          /\ junctions[k].transitionDuration > 0 )
        => /\ junctions[k].video.filter = "concat"
           /\ \A m \in 1..Len(command.filterComplex) :
                 LET st == command.filterComplex[m]
                 IN  (st.filter = "xfade" /\ st.out = junctions[k].video.out)
                     => st.args.offset >= junctions[k].currentOffset

(***************************************************************************)
(* C19: in the transition chain, junction i is one plain concat stage and  *)
(* the next junction starts from currentOffset + duration(clip i) exactly  *)
(* when clip i's transition is NONE, absent or not longer than 0;          *)
(* otherwise it is one xfade stage and the next junction starts from the   *)
(* offset emitted; without background audio it also has one audio stage:   *)
(* a concat beside a concat, an acrossfade of the xfade's duration beside  *)
(* an xfade.                                                               *)
(***************************************************************************)
C19_JunctionBranches ==
    ( Planned /\ junctions # <<>> )
    => LET n  == Len(junctions)
           fc == command.filterComplex
       IN  /\ n = Len(videos) - 1
           /\ junctions[1].currentOffset = 0
           /\ \A k \in 1..n :
                LET j     == junctions[k]
                    plain == ~Fading(videos[k])
                    made  == {m \in 1..Len(fc) : fc[m].out = VTemp(k - 1)}
                    heard == {m \in 1..Len(fc) : fc[m].out = ATemp(k - 1)}
                IN  /\ Cardinality(made) = 1
                    /\ \A m \in made :
                          /\ fc[m] = j.video
                          /\ fc[m].filter = IF plain THEN "concat" ELSE "xfade"
                          /\ ~plain =>
                                /\ fc[m].args.duration =
                                      videos[k].transition[1].duration
                                /\ fc[m].args.offset = j.offset
                    /\ k < n =>
                          junctions[k + 1].currentOffset =
                             IF plain
                             THEN j.currentOffset + videos[k].duration
                             ELSE j.video.args.offset
                    /\ backgroundAudio => heard = {}
                    /\ ~backgroundAudio =>
                          /\ Cardinality(heard) = 1
                          /\ \A m \in heard :
                                /\ fc[m].filter =
                                      IF plain THEN "concat" ELSE "acrossfade"
                                /\ ~plain => fc[m].args.d = j.video.args.duration

\* Three clips without background audio: a cross-fade of 1 second out of a
\* 5-second clip, then a plain junction starting from the emitted offset 4.
C19_Witness ==
    /\ Planned
    /\ ~backgroundAudio
    /\ Len(junctions) = 2
    /\ videos[1].duration = 5
    /\ junctions[1].video.filter = "xfade"
    /\ junctions[1].video.args.offset = 4
    /\ junctions[1].audio[1].filter = "acrossfade"
    /\ junctions[1].audio[1].args.d = 1
    /\ junctions[2].video.filter = "concat"
    /\ junctions[2].currentOffset = 4

(***************************************************************************)
(* C20: a getPreviewFrame call that fails without the buffer-reallocation  *)
(* signature (non-zero exit code, a write or read that throws) has deleted *)
(* its intermediate files and ends with the one preview-generation-failed  *)
(* error, not with the underlying error.                                   *)
(***************************************************************************)
C20_OtherFailuresSynthesized ==
    ( /\ ppc = "done"
      /\ previewResult.status = "error"
      /\ \A k \in 1..Len(Execs) : Execs[k].outcome # "signature" )
    => /\ previewResult = Failure(PreviewFailed)
       /\ ~Exists(fs, PreviewInputName)
       /\ ~Exists(fs, PreviewOutputName)

C13_StitchNeedsTwoClips ==
    [][ /\ (Len(stitcherVideos) < 2 /\ HandleStitch)
           => /\ status'.error = ValidationError
              /\ pc' = pc
              /\ fs' = fs
              /\ videos' = videos
        /\ (pc = "idle" /\ pc' = "exec")
           => /\ Len(stitcherVideos) >= 2
              /\ videos' = stitcherVideos ]_vars

\* Three files uploaded, two of them removed again, then a stitch request:
\* the error is recorded and the service has not been called.
C13_Witness ==
    /\ uploaded = 3
    /\ Len(stitcherVideos) = 1
    /\ status.error = ValidationError
    /\ ~status.isProcessing
    /\ pc = "idle"
    /\ stitchResult = NoResult
    /\ fs = EmptyFS

(***************************************************************************)
(* C16: two stitch calls running at once on the service do not interfere:  *)
(* while a call waits for its exec the input files hold its own clips, and *)
(* a call that returns has the output built from its own clips (and its    *)
(* own background audio).                                                  *)
(***************************************************************************)
OwnFiles(vs) == [k \in 1..Len(vs) |-> vs[k].file]

C16_ConcurrentCallsDoNotInterfere ==
    /\ pc = "exec" => ReadAll(fs, InputNames(videos)) = OwnFiles(videos)
    /\ pc2 = "exec" => ReadAll(fs, InputNames(videos2)) = OwnFiles(videos2)
    /\ pc = "done" =>
          /\ stitchResult.blob.data.video = OwnFiles(planned[1].videos)
          /\ planned[1].backgroundAudio <=> stitchResult.blob.data.audio # <<>>
    /\ pc2 = "done" =>
          /\ stitchResult2.blob.data.video = OwnFiles(videos2)
          /\ backgroundAudio2 <=> stitchResult2.blob.data.audio # <<>>

(***************************************************************************)
(* C21: when the engine's exec of stitchVideos returns a non-zero exit     *)
(* code, the call ends there with the execution failure a thrown exec      *)
(* gives: it does not go on to read the output file.                       *)
(***************************************************************************)
C21_NonZeroExitIsExecFailure ==
    [][ (pc = "exec" /\ StitchExecOutcome("nonzero"))
        => /\ pc' = "failed"
           /\ stitchResult' = Failure(ExecErrorMessage(needsReencode)) ]_vars

C24_GeneratedNamesDistinct ==
    [][ (pc = "idle" /\ pc' = "exec" /\ fs = EmptyFS)
        => LET argv == command'.argv
               out  == argv[Len(argv)]
           IN  /\ Cardinality(DOMAIN fs') =
                     Len(videos')
                     + (IF backgroundAudio' THEN 1 ELSE 0)
                     + (IF UsesStreamCopy(command') THEN 1 ELSE 0)
               /\ out \notin DOMAIN fs'
               /\ ("background_audio.mp3" \in DOMAIN fs') <=> backgroundAudio'
               /\ ("filelist.txt" \in DOMAIN fs') <=> UsesStreamCopy(command') ]_vars

\* Three clips named filelist.txt: input0.txt .. input2.txt, filelist.txt and
\* output.txt on the StreamCopy path.
C24_Witness ==
    /\ pc = "exec"
    /\ Len(videos) = 3
    /\ videos[1].file.name = <<"filelist", "txt">>
    /\ UsesStreamCopy(command)
    /\ DOMAIN fs = {"input0.txt", "input1.txt", "input2.txt", "filelist.txt"}
    /\ command.argv[Len(command.argv)] = "output.txt"

\* The places of a graph that read a label: <<stage, input position>>.
Consumers(cmd, label) ==
    UNION {{<<k, x>> : x \in {y \in 1..Len(cmd.filterComplex[k].ins) :
                                cmd.filterComplex[k].ins[y] = label}} :
           k \in 1..Len(cmd.filterComplex)}

\* The labels the argument vector maps to the output, in order.
RECURSIVE Mapped(_)
Mapped(argv) ==
    IF Len(argv) < 2 THEN <<>>
    ELSE IF Head(argv) = "-map" THEN <<argv[2]>> \o Mapped(Tail(Tail(argv)))
    ELSE Mapped(Tail(argv))

C28_LogListenerScopedToCall ==
    /\ ppc \in {"idle", "done"} => ~logListener
    /\ ppc \notin {"idle", "done"} => logListener
    /\ ( /\ ppc = "done"
         /\ Len(Execs) = 2
         /\ Execs[2].outcome = "signature" )
       => previewResult = Failure(PreviewFailed)

\* The signature is raised in the filtered run and again in the fallback;
\* the call has ended with the preview failure and the listener is gone.
C28_Witness ==
    /\ ppc = "done"
    /\ Len(Execs) = 2
    /\ Execs[1].outcome = "signature"
    /\ Execs[2].outcome = "signature"
    /\ Execs[2].arg = FallbackCommand(previewReq)
    /\ previewResult = Failure(PreviewFailed)
    /\ ~logListener

(***************************************************************************)
(* C25: the service constructs an engine instance only when every instance *)
(* constructed before has failed to load: never while one is loaded or is  *)
(* being loaded, whatever calls are in progress.                           *)
(***************************************************************************)
C25_SingleEngineInstance ==
    [][ Len(engines') > Len(engines)
        => \A e \in 1..Len(engines) : engines[e].state = "failed" ]_vars

(***************************************************************************)
(* C26: an operation issues its first write on the instance it holds only  *)
(* when the load of that instance has completed, and a load that fails     *)
(* does not set the loaded flag.                                           *)
(***************************************************************************)
C26_UsesOnlyLoadedInstance ==
    [][ \A c \in 1..Len(calls) :
          /\ (calls[c].at = "ready" /\ calls'[c].at # "ready")
             => engines[calls[c].engine].state = "loaded"
          /\ (calls[c].at = "loading" /\ calls'[c].at = "failed")
             => loaded' = loaded ]_vars

(***************************************************************************)
(* C27: an event the engine raises while a job runs is delivered to the    *)
(* callbacks of that job's call only, and no listener of a call that has   *)
(* returned or thrown stays registered on an instance.                     *)
(***************************************************************************)
C27_EventsReachOnlyTheRunningJob ==
    /\ invoked.callbacks \subseteq {invoked.job}
    /\ \A e \in 1..Len(engines) :
          \A k \in 1..Len(engines[e].listeners) :
             calls[engines[e].listeners[k].call].at
                \notin {"done", "failed", "rejected"}

(***************************************************************************)
(* C22: a rejected deleteFile during cleanup does not change the outcome:  *)
(* a stitchVideos call that has read its output returns it, and a          *)
(* getPreviewFrame call that ends from the read of an existing frame       *)
(* returns that frame.                                                     *)
(***************************************************************************)
C22_DeleteFailureKeepsOutcome ==
    [][ /\ (pc = "cleanup" /\ pc' = "done")
           => /\ stitchResult'.status = "ok"
              /\ stitchResult'.blob.data = stitchResult.data
        /\ ( /\ ppc \in {"read", "fallbackRead"}
             /\ ppc' = "done"
             /\ Exists(fs, PreviewOutputName) )
           => /\ previewResult'.status = "ok"
              /\ previewResult'.blob.data = fs[PreviewOutputName] ]_vars

(***************************************************************************)
(* C30: the wrapper renders the protected content only while the widget's  *)
(* logged-in user is the wrapper's user and has an e-mail of the allow     *)
(* list; and when the wrapper initialises with a stored session whose      *)
(* expiry time has passed, it logs out, sets no user and removes the       *)
(* expiry entry.                                                           *)
(***************************************************************************)
C30_ContentOnlyForAllowedUser ==
    [][ /\ Screen' = "children"
           => /\ currentUser' # <<>>
              /\ currentUser' = authUser'
              /\ currentUser'[1] \in ALLOWED_EMAILS
        /\ ( /\ ~isInitialized
             /\ isInitialized'
             /\ currentUser # <<>>
             /\ expiry # <<>>
             /\ now > expiry[1] )
           => /\ logoutPending'
              /\ authUser' = <<>>
              /\ expiry' = <<>>
              /\ Screen' = "login" ]_vars

\* An allowed user logged in at time 0 (so the content was rendered); the
\* page was opened again after the month had passed and has initialised.
C30_Witness ==
    /\ isInitialized
    /\ currentUser = <<"edwin@editsolutions.nl">>
    /\ logoutPending
    /\ authUser = <<>>
    /\ expiry = <<>>
    /\ now = OneMonth + 1


====
